---- MODULE Spec2Model ----
(***************************************************************************)
(* Model of validator-keys-tool: the master key file, the three commands   *)
(* of runCommand (create_master_keys, create_signing_keys,                 *)
(* revoke_master_keys), ValidatorKeys::make_ValidatorKeys, writeToFile     *)
(* and createEphemeralKeys.                                                *)
(*                                                                         *)
(* Integers are scaled: the program's uint32 is UIntBits bits wide here,   *)
(* so std::numeric_limits<std::uint32_t>::max() is UINT32_MAX below.       *)
(***************************************************************************)
EXTENDS Integers, Sequences, FiniteSets, TLC

\* ------------------------------------------------------------------ bounds
UIntBits == 3          \* modelled width of std::uint32_t
MaxSeed  == 2          \* number of distinct values randomSeed() can return
MaxCmds  == 3          \* number of command invocations that are followed

UINT32_MAX == 2^UIntBits - 1          \* numeric_limits<uint32_t>::max()
INT32_MAX  == 2^(UIntBits - 1) - 1    \* Json::Value::maxInt

\* ----------------------------------------------------------- value domains
KeyTypes == {"ed25519", "secp256k1"}
Seeds    == 1..MaxSeed

None == <<>>
Some(x) == <<x>>

\* KeyType keyTypeFromString(std::string): exact match, anything else invalid
keyTypeFromString(s) == IF s \in KeyTypes THEN s ELSE "invalid"

\* std::string to_string(KeyType)
to_string(kt) == kt

\* the secret bytes that key type kt derives from a seed
generateSecretKey(kt, seed) == [alg |-> kt, seed |-> seed]

\* the public key of secret sk used as a key of type kt
derivePublicKey(kt, sk) == [type |-> kt, secret |-> sk]

SecretKeys == {generateSecretKey(kt, s) : kt \in KeyTypes, s \in Seeds}

\* toBase58(TokenType, key): the text carries the token type and the bytes
toBase58(token, key) == [token |-> token, payload |-> key]

\* parseBase58<SecretKey>(TokenType, std::string): boost::optional<SecretKey>
parseBase58(token, text) ==
    IF text.token = token /\ text.payload \in SecretKeys
    THEN Some(text.payload) ELSE None

\* ------------------------------------------------------------ the key file
FieldNames == {"key_type", "master_secret", "sequence", "validation_public_key"}

BadSecret == [alg |-> "none", seed |-> 0]
BadPublic == [type |-> "none", secret |-> BadSecret]

\* the text of the "sequence" member as it stands in the file
NumberTok(n) == [kind |-> "number", n |-> n]
StringTok    == [kind |-> "string", n |-> 0]
BoolTok(b)   == [kind |-> "bool", n |-> IF b THEN 1 ELSE 0]
RealTok      == [kind |-> "real", n |-> 0]
NullTok      == [kind |-> "null", n |-> 0]

\* Json::Reader::decodeNumber: the Json::Value a number text is read as
decodeNumber(n) ==
    IF n < 0 THEN
        IF n >= -INT32_MAX - 1 THEN [type |-> "intValue", n |-> n]
                               ELSE [type |-> "realValue", n |-> 0]
    ELSE IF n <= INT32_MAX  THEN [type |-> "intValue", n |-> n]
    ELSE IF n <= UINT32_MAX THEN [type |-> "uintValue", n |-> n]
    ELSE [type |-> "realValue", n |-> 0]

\* Json::Reader::readValue for the member "sequence"
readValue(tok) ==
    CASE tok.kind = "number" -> decodeNumber(tok.n)
      [] tok.kind = "string" -> [type |-> "stringValue", n |-> 0]
      [] tok.kind = "bool"   -> [type |-> "booleanValue", n |-> tok.n]
      [] tok.kind = "real"   -> [type |-> "realValue", n |-> 0]
      [] OTHER               -> [type |-> "nullValue", n |-> 0]

\* Json::Value::isIntegral
isIntegral(jv) == jv.type \in {"intValue", "uintValue", "booleanValue"}

\* writeUInt with the value converted as Json::Int instead of Json::UInt
writeUInt_asInt(v) ==
    LET u == v % 2^UIntBits IN
    NumberTok(IF u > INT32_MAX THEN u - 2^UIntBits ELSE u)

\* Json::StyledWriter on Json::UInt(v): the decimal text of v
writeUInt(v) == NumberTok(v % 2^UIntBits)

NoFile == [state |-> "absent", members |-> {}, key_type |-> "",
           master_secret |-> toBase58("none", BadSecret),
           validation_public_key |-> toBase58("none", BadPublic),
           sequence |-> NullTok]

\* a file that exists and is not a JSON document (empty, cut short, "{{}")
Garbage == [NoFile EXCEPT !.state = "garbage"]

JsonFile(members, kt, ms, vpk, seq) ==
    [state |-> "json", members |-> members,
     key_type |-> IF "key_type" \in members THEN kt ELSE "",
     master_secret |-> IF "master_secret" \in members THEN ms
                       ELSE toBase58("none", BadSecret),
     validation_public_key |-> IF "validation_public_key" \in members THEN vpk
                               ELSE toBase58("none", BadPublic),
     sequence |-> IF "sequence" \in members THEN seq ELSE NullTok]

\* ---------------------------------------------------------- ValidatorKeys
NoKeys == [keyType |-> "invalid", masterSecret |-> BadSecret,
           validationPublicKey |-> BadPublic, sequence |-> 0]

\* NewValidatorKeys starting the sequence at one
NewValidatorKeys_fromOne(kt, seed) ==
    LET sk == generateSecretKey(kt, seed) IN
    [keyType |-> kt, masterSecret |-> sk,
     validationPublicKey |-> derivePublicKey(kt, sk), sequence |-> 1]

\* ValidatorKeys::ValidatorKeys (KeyType const&), seed = randomSeed()
NewValidatorKeys(kt, seed) ==
    LET sk == generateSecretKey(kt, seed) IN
    [keyType |-> kt, masterSecret |-> sk,
     validationPublicKey |-> derivePublicKey(kt, sk), sequence |-> 0]

VARIABLES
    parent,     \* keyFile.parent_path(): "none" (empty), "dir", "missing", "notdir"
    file,       \* what is stored at the key file path
    last,       \* the last invocation: its inputs, result and output
    produced,   \* the manifests displayed so far, oldest first
    ncmds       \* number of invocations so far

vars == <<parent, file, last, produced, ncmds>>


\* --------------------------------------------------------------- loading
Loaded(keys) == [err |-> "", keys |-> keys]
LoadError(msg) == [err |-> msg, keys |-> NoKeys]

\* Json::Value::asUInt on a value for which isIntegral holds
asUInt(jv) == jv.n % 2^UIntBits

\* make_ValidatorKeys checking each member's value as soon as it is found
make_ValidatorKeys_fieldByField(f) ==
    IF f.state = "absent" THEN LoadError("Failed to open key file")
    ELSE IF f.state = "garbage" THEN LoadError("Unable to parse json key file")
    ELSE IF "key_type" \notin f.members
        THEN LoadError("missing key_type field")
    ELSE IF keyTypeFromString(f.key_type) = "invalid"
        THEN LoadError("invalid key type")
    ELSE IF "master_secret" \notin f.members
        THEN LoadError("missing master_secret field")
    ELSE IF parseBase58("TOKEN_NODE_PRIVATE", f.master_secret) = None
        THEN LoadError("invalid master secret")
    ELSE IF "sequence" \notin f.members
        THEN LoadError("missing sequence field")
    ELSE LET keyType == keyTypeFromString(f.key_type)
             masterSecret == parseBase58("TOKEN_NODE_PRIVATE", f.master_secret)
             jSequence == readValue(f.sequence)
         IN  IF ~ isIntegral(jSequence) THEN LoadError("invalid sequence")
             ELSE IF jSequence.n < 0
                 THEN LoadError("negative integer can not be converted")
             ELSE Loaded([keyType |-> keyType,
                          masterSecret |-> masterSecret[1],
                          validationPublicKey |->
                              derivePublicKey(keyType, masterSecret[1]),
                          sequence |-> asUInt(jSequence)])

\* make_ValidatorKeys taking the public key from the record when it has one
make_ValidatorKeys_trustsRecord(f) ==
    IF f.state = "absent" THEN LoadError("Failed to open key file")
    ELSE IF f.state = "garbage" THEN LoadError("Unable to parse json key file")
    ELSE IF "key_type" \notin f.members
        THEN LoadError("missing key_type field")
    ELSE IF "master_secret" \notin f.members
        THEN LoadError("missing master_secret field")
    ELSE IF "sequence" \notin f.members
        THEN LoadError("missing sequence field")
    ELSE LET keyType == keyTypeFromString(f.key_type)
             masterSecret == parseBase58("TOKEN_NODE_PRIVATE", f.master_secret)
             jSequence == readValue(f.sequence)
         IN  IF keyType = "invalid" THEN LoadError("invalid key type")
             ELSE IF masterSecret = None THEN LoadError("invalid master secret")
             ELSE IF ~ isIntegral(jSequence) THEN LoadError("invalid sequence")
             ELSE IF jSequence.n < 0
                 THEN LoadError("negative integer can not be converted")
             ELSE Loaded([keyType |-> keyType,
                          masterSecret |-> masterSecret[1],
                          validationPublicKey |->
                              IF f.validation_public_key.token = "TOKEN_NODE_PUBLIC"
                              THEN f.validation_public_key.payload
                              ELSE derivePublicKey(keyType, masterSecret[1]),
                          sequence |-> asUInt(jSequence)])

\* ValidatorKeys::make_ValidatorKeys (keyFile)
make_ValidatorKeys(f) ==
    IF f.state = "absent" THEN LoadError("Failed to open key file")
    ELSE IF f.state = "garbage" THEN LoadError("Unable to parse json key file")
    ELSE IF "key_type" \notin f.members
        THEN LoadError("missing key_type field")
    ELSE IF "master_secret" \notin f.members
        THEN LoadError("missing master_secret field")
    ELSE IF "sequence" \notin f.members
        THEN LoadError("missing sequence field")
    ELSE LET keyType == keyTypeFromString(f.key_type)
             masterSecret == parseBase58("TOKEN_NODE_PRIVATE", f.master_secret)
             jSequence == readValue(f.sequence)
         IN  IF keyType = "invalid" THEN LoadError("invalid key type")
             ELSE IF masterSecret = None THEN LoadError("invalid master secret")
             ELSE IF ~ isIntegral(jSequence) THEN LoadError("invalid sequence")
             ELSE IF jSequence.n < 0
                 THEN LoadError("negative integer can not be converted")
             ELSE Loaded([keyType |-> keyType,
                          masterSecret |-> masterSecret[1],
                          validationPublicKey |->
                              derivePublicKey(keyType, masterSecret[1]),
                          sequence |-> asUInt(jSequence)])

\* --------------------------------------------------------------- writing
\* toRecord encoding the master secret with the public-key token type
toRecord_publicToken(keys) ==
    JsonFile(FieldNames,
             to_string(keys.keyType),
             toBase58("TOKEN_NODE_PUBLIC", keys.masterSecret),
             toBase58("TOKEN_NODE_PUBLIC", keys.validationPublicKey),
             writeUInt(keys.sequence))

\* the Json::Value jv that writeToFile builds and writes with toStyledString
toRecord(keys) ==
    JsonFile(FieldNames,
             to_string(keys.keyType),
             toBase58("TOKEN_NODE_PRIVATE", keys.masterSecret),
             toBase58("TOKEN_NODE_PUBLIC", keys.validationPublicKey),
             writeUInt(keys.sequence))

\* what the file system does during one writeToFile: every call succeeds,
\* or create_directories fails, or the ofstream fails to open, or the stream
\* write does not go through
IOs == {"ok", "create_directories fails", "open fails", "write fails"}

\* writeToFile without the is_directory test on the parent path
writeToFile_noDirectoryTest(keys, par, f, io) ==
    LET ec   == par = "missing" /\ io = "create_directories fails"
        par1 == IF par = "missing" /\ ~ ec THEN "dir" ELSE par
    IN  IF par # "none" /\ ec
            THEN [err |-> "Cannot create directory", parent |-> par1, file |-> f]
        ELSE IF io = "open fails" \/ par1 = "notdir"
            THEN [err |-> "Cannot open key file", parent |-> par1, file |-> f]
        ELSE IF io = "write fails"
            THEN [err |-> "", parent |-> par1, file |-> Garbage]
        ELSE [err |-> "", parent |-> par1, file |-> toRecord(keys)]

\* ValidatorKeys::writeToFile (keyFile): the directory step, the truncating
\* open, then the unchecked stream write
writeToFile(keys, par, f, io) ==
    LET ec   == par = "missing" /\ io = "create_directories fails"
        par1 == IF par = "missing" /\ ~ ec THEN "dir" ELSE par
    IN  IF par # "none" /\ (ec \/ par1 # "dir")
            THEN [err |-> "Cannot create directory", parent |-> par1, file |-> f]
        ELSE IF io = "open fails"
            THEN [err |-> "Cannot open key file", parent |-> par1, file |-> f]
        ELSE IF io = "write fails"
            THEN [err |-> "", parent |-> par1, file |-> Garbage]
        ELSE [err |-> "", parent |-> par1, file |-> toRecord(keys)]

\* ------------------------------------------------------------- manifests
\* sign (st, HashPrefix::manifest, type, sk, sigField): the signature is over
\* the object without its signing fields
signingData(st) ==
    [Sequence |-> st.Sequence, PublicKey |-> st.PublicKey,
     SigningPubKey |-> st.SigningPubKey]

signature(kt, sk, st) ==
    [signer |-> derivePublicKey(kt, sk), data |-> signingData(st)]

NoSignature == [signer |-> BadPublic,
                data |-> [Sequence |-> 0, PublicKey |-> BadPublic,
                          SigningPubKey |-> BadPublic]]

\* verify (st, HashPrefix::manifest, pk, sigField)
verify(st, pk, sig) == sig.signer = pk /\ sig.data = signingData(st)

\* STObject::add (Serializer&): the fields, each tagged, in canonical order
serialize(st) ==
    << <<"Sequence", st.Sequence>>, <<"PublicKey", st.PublicKey>>,
       <<"SigningPubKey", st.SigningPubKey>>, <<"Signature", st.Signature>>,
       <<"MasterSignature", st.MasterSignature>> >>

\* STObject::set (SerialIter&): each field is found by its tag
deserialize(m) ==
    LET field(name) == m[CHOOSE i \in 1..Len(m) : m[i][1] = name][2]
    IN  [Sequence |-> field("Sequence"), PublicKey |-> field("PublicKey"),
         SigningPubKey |-> field("SigningPubKey"),
         Signature |-> field("Signature"),
         MasterSignature |-> field("MasterSignature")]

\* beast::detail::base64_encode and base64_decode
base64_encode(m) == [base64 |-> m]
base64_decode(text) == text.base64

\* the STObject a manifest text stands for
decodeManifest(text) == deserialize(base64_decode(text))

\* createEphemeralKeys taking the master signature before the ephemeral
\* public key is set
createEphemeralKeys_masterSignsEarly(keys, ephKeyType, seed) ==
    LET ssk == generateSecretKey(ephKeyType, seed)
        spk == derivePublicKey(ephKeyType, ssk)
        early == [Sequence |-> keys.sequence % 2^UIntBits,
                  PublicKey |-> keys.validationPublicKey,
                  SigningPubKey |-> BadPublic,
                  Signature |-> NoSignature,
                  MasterSignature |-> NoSignature]
        st0 == [early EXCEPT !.SigningPubKey = spk]
        st1 == [st0 EXCEPT !.Signature = signature(ephKeyType, ssk, st0)]
        st2 == [st1 EXCEPT !.MasterSignature =
                    signature(keys.keyType, keys.masterSecret, early)]
    IN  [seed |-> seed, manifest |-> base64_encode(serialize(st2)),
         validationPublicKey |-> spk]

\* createEphemeralKeys signing the master signature with the ephemeral secret
createEphemeralKeys_ephSignsTwice(keys, ephKeyType, seed) ==
    LET ssk == generateSecretKey(ephKeyType, seed)
        spk == derivePublicKey(ephKeyType, ssk)
        st0 == [Sequence |-> keys.sequence % 2^UIntBits,
                PublicKey |-> keys.validationPublicKey,
                SigningPubKey |-> spk,
                Signature |-> NoSignature,
                MasterSignature |-> NoSignature]
        st1 == [st0 EXCEPT !.Signature = signature(ephKeyType, ssk, st0)]
        st2 == [st1 EXCEPT !.MasterSignature = signature(ephKeyType, ssk, st1)]
    IN  [seed |-> seed, manifest |-> base64_encode(serialize(st2)),
         validationPublicKey |-> spk]

\* createEphemeralKeys generating a secp256k1 key whatever ephKeyType is
createEphemeralKeys_fixedType(keys, ephKeyType, seed) ==
    LET ssk == generateSecretKey("secp256k1", seed)
        spk == derivePublicKey("secp256k1", ssk)
        st0 == [Sequence |-> keys.sequence % 2^UIntBits,
                PublicKey |-> keys.validationPublicKey,
                SigningPubKey |-> spk,
                Signature |-> NoSignature,
                MasterSignature |-> NoSignature]
        st1 == [st0 EXCEPT !.Signature = signature("secp256k1", ssk, st0)]
        st2 == [st1 EXCEPT !.MasterSignature =
                    signature(keys.keyType, keys.masterSecret, st1)]
    IN  [seed |-> seed, manifest |-> base64_encode(serialize(st2)),
         validationPublicKey |-> spk]

\* createEphemeralKeys embedding the sequence that follows the identity's
createEphemeralKeys_nextSequence(keys, ephKeyType, seed) ==
    LET ssk == generateSecretKey(ephKeyType, seed)
        spk == derivePublicKey(ephKeyType, ssk)
        st0 == [Sequence |-> (keys.sequence + 1) % 2^UIntBits,
                PublicKey |-> keys.validationPublicKey,
                SigningPubKey |-> spk,
                Signature |-> NoSignature,
                MasterSignature |-> NoSignature]
        st1 == [st0 EXCEPT !.Signature = signature(ephKeyType, ssk, st0)]
        st2 == [st1 EXCEPT !.MasterSignature =
                    signature(keys.keyType, keys.masterSecret, st1)]
    IN  [seed |-> seed, manifest |-> base64_encode(serialize(st2)),
         validationPublicKey |-> spk]

\* ValidatorKeys::createEphemeralKeys (ephKeyType), seed = randomSeed()
createEphemeralKeys(keys, ephKeyType, seed) ==
    LET ssk == generateSecretKey(ephKeyType, seed)
        spk == derivePublicKey(ephKeyType, ssk)
        st0 == [Sequence |-> keys.sequence % 2^UIntBits,
                PublicKey |-> keys.validationPublicKey,
                SigningPubKey |-> spk,
                Signature |-> NoSignature,
                MasterSignature |-> NoSignature]
        st1 == [st0 EXCEPT !.Signature = signature(ephKeyType, ssk, st0)]
        st2 == [st1 EXCEPT !.MasterSignature =
                    signature(keys.keyType, keys.masterSecret, st1)]
    IN  [seed |-> seed, manifest |-> base64_encode(serialize(st2)),
         validationPublicKey |-> spk]


\* -------------------------------------------------------------- commands
SeqNotIncreasing == "Sequence should exceed current sequence"
SeqExhausted == "Sequence is already at maximum value"

\* advanceSequence rejecting only a requested sequence below the current one
advanceSequence_lt(current, requested) ==
    IF requested # None
    THEN IF requested[1] < current
         THEN [err |-> SeqNotIncreasing, sequence |-> current]
         ELSE [err |-> "", sequence |-> requested[1]]
    ELSE IF current = UINT32_MAX
         THEN [err |-> SeqExhausted, sequence |-> current]
         ELSE [err |-> "", sequence |-> current + 1]

\* advanceSequence testing exhaustion against the signed maximum
advanceSequence_signedMax(current, requested) ==
    IF requested # None
    THEN IF requested[1] <= current
         THEN [err |-> SeqNotIncreasing, sequence |-> current]
         ELSE [err |-> "", sequence |-> requested[1]]
    ELSE IF current = INT32_MAX
         THEN [err |-> SeqExhausted, sequence |-> current]
         ELSE [err |-> "", sequence |-> current + 1]

\* advanceSequence testing exhaustion before looking at the request
advanceSequence_exhaustedFirst(current, requested) ==
    IF current = UINT32_MAX
    THEN [err |-> SeqExhausted, sequence |-> current]
    ELSE IF requested # None
    THEN IF requested[1] <= current
         THEN [err |-> SeqNotIncreasing, sequence |-> current]
         ELSE [err |-> "", sequence |-> requested[1]]
    ELSE [err |-> "", sequence |-> current + 1]

\* advanceSequence testing for the maximum of the wider in-memory field
advanceSequence_sizeMax(current, requested) ==
    IF requested # None
    THEN IF requested[1] <= current
         THEN [err |-> SeqNotIncreasing, sequence |-> current]
         ELSE [err |-> "", sequence |-> requested[1]]
    ELSE IF current = 2^(2 * UIntBits) - 1
         THEN [err |-> SeqExhausted, sequence |-> current]
         ELSE [err |-> "", sequence |-> current + 1]

\* advanceSequence incrementing without the exhaustion test
advanceSequence_unchecked(current, requested) ==
    IF requested # None
    THEN IF requested[1] <= current
         THEN [err |-> SeqNotIncreasing, sequence |-> current]
         ELSE [err |-> "", sequence |-> requested[1]]
    ELSE [err |-> "", sequence |-> current + 1]

\* signManifest, the sequence step: requested is boost::optional<uint32_t>
advanceSequence(current, requested) ==
    IF requested # None
    THEN IF requested[1] <= current
         THEN [err |-> SeqNotIncreasing, sequence |-> current]
         ELSE [err |-> "", sequence |-> requested[1]]
    ELSE IF current = UINT32_MAX
         THEN [err |-> SeqExhausted, sequence |-> current]
         ELSE [err |-> "", sequence |-> current + 1]

NoIO == "ok"

\* what one invocation did: its command and requested sequence, the identity
\* it loaded, the error it threw ("" when it returned), the identity it held
\* at the end, what it printed, the steps it took in order, what the file
\* system did to its write, the key file it started from, and the key type it
\* passed to the ValidatorKeys constructor or to createEphemeralKeys ("" when
\* it reached neither)
Invocation(cmd, requested, loaded, err, keys, eph, warning, stored, events, io, before, ktype) ==
    [cmd |-> cmd, requested |-> requested, loaded |-> loaded, err |-> err,
     keys |-> keys, eph |-> eph, warning |-> warning, stored |-> stored,
     events |-> events, io |-> io, before |-> before, ktype |-> ktype]

NoInvocation ==
    Invocation("", None, None, "", None, None, FALSE, FALSE, <<>>, NoIO,
               NoFile, "")

\* signManifest warning whenever the caller passes a sequence
signManifest_warnsOnRequest(cmd, par, f, sequence, seed, io) ==
    LET ld == make_ValidatorKeys(f) IN
    IF ld.err # ""
    THEN [parent |-> par, file |-> f,
          last |-> Invocation(cmd, sequence, None, ld.err, None, None,
                              FALSE, FALSE, <<"load">>, NoIO, f, "")]
    ELSE
    LET adv == advanceSequence(ld.keys.sequence, sequence) IN
    IF adv.err # ""
    THEN [parent |-> par, file |-> f,
          last |-> Invocation(cmd, sequence, Some(ld.keys), adv.err,
                              Some(ld.keys), None, FALSE, FALSE,
                              <<"load", "sequence">>, NoIO, f, "")]
    ELSE
    LET keys == [ld.keys EXCEPT !.sequence = adv.sequence]
        warning == sequence # None
        ephemeralKeys == createEphemeralKeys(keys, "secp256k1", seed)
        w == writeToFile(keys, par, f, io)
    IN  [parent |-> w.parent, file |-> w.file,
         last |-> Invocation(cmd, sequence, Some(ld.keys), w.err, Some(keys),
                             Some(ephemeralKeys), warning, FALSE,
                             <<"load", "sequence", "sign", "display", "persist">>,
                             io, f, "secp256k1")]

\* signManifest signing and displaying before the sequence is checked
signManifest_signsFirst(cmd, par, f, sequence, seed, io) ==
    LET ld == make_ValidatorKeys(f) IN
    IF ld.err # ""
    THEN [parent |-> par, file |-> f,
          last |-> Invocation(cmd, sequence, None, ld.err, None, None,
                              FALSE, FALSE, <<"load">>, NoIO, f, "")]
    ELSE
    LET adv == advanceSequence(ld.keys.sequence, sequence)
        early == createEphemeralKeys(ld.keys, "secp256k1", seed)
    IN
    IF adv.err # ""
    THEN [parent |-> par, file |-> f,
          last |-> Invocation(cmd, sequence, Some(ld.keys), adv.err,
                              Some(ld.keys), Some(early), FALSE, FALSE,
                              <<"load", "sign", "display", "sequence">>,
                              NoIO, f, "secp256k1")]
    ELSE
    LET keys == [ld.keys EXCEPT !.sequence = adv.sequence]
        warning == keys.sequence = UINT32_MAX
        ephemeralKeys == createEphemeralKeys(keys, "secp256k1", seed)
        w == writeToFile(keys, par, f, io)
    IN  [parent |-> w.parent, file |-> w.file,
         last |-> Invocation(cmd, sequence, Some(ld.keys), w.err, Some(keys),
                             Some(ephemeralKeys), warning, FALSE,
                             <<"load", "sequence", "sign", "display", "persist">>,
                             io, f, "secp256k1")]

\* void signManifest (keyFile, sequence): the invocation and the files after it
signManifest(cmd, par, f, sequence, seed, io) ==
    LET ld == make_ValidatorKeys(f) IN
    IF ld.err # ""
    THEN [parent |-> par, file |-> f,
          last |-> Invocation(cmd, sequence, None, ld.err, None, None,
                              FALSE, FALSE, <<"load">>, NoIO, f, "")]
    ELSE
    LET adv == advanceSequence(ld.keys.sequence, sequence) IN
    IF adv.err # ""
    THEN [parent |-> par, file |-> f,
          last |-> Invocation(cmd, sequence, Some(ld.keys), adv.err,
                              Some(ld.keys), None, FALSE, FALSE,
                              <<"load", "sequence">>, NoIO, f, "")]
    ELSE
    LET keys == [ld.keys EXCEPT !.sequence = adv.sequence]
        warning == keys.sequence = UINT32_MAX
        ephemeralKeys == createEphemeralKeys(keys, "secp256k1", seed)
        w == writeToFile(keys, par, f, io)
    IN  [parent |-> w.parent, file |-> w.file,
         last |-> Invocation(cmd, sequence, Some(ld.keys), w.err, Some(keys),
                             Some(ephemeralKeys), warning, FALSE,
                             <<"load", "sequence", "sign", "display", "persist">>,
                             io, f, "secp256k1")]

\* createKeyFile writing a second time when the first write fails
createKeyFile_retry(par, f, seed, io) ==
    IF f.state # "absent"
    THEN [parent |-> par, file |-> f,
          last |-> Invocation("create_master_keys", None, None,
                              "Refusing to overwrite existing key file",
                              None, None, FALSE, FALSE, <<>>, NoIO, f, "")]
    ELSE
    LET keys == NewValidatorKeys("ed25519", seed)
        w1 == writeToFile(keys, par, f, io)
        w == IF w1.err = "" THEN w1 ELSE writeToFile(keys, w1.parent, w1.file, io)
    IN  [parent |-> w.parent, file |-> w.file,
         last |-> Invocation("create_master_keys", None, None, w.err,
                             Some(keys), None, FALSE, w.err = "",
                             IF w1.err = "" THEN <<"create", "persist">>
                             ELSE <<"create", "persist", "persist">>,
                             io, f, "ed25519")]

\* createKeyFile without the test for an existing key file
createKeyFile_overwrite(par, f, seed, io) ==
    LET keys == NewValidatorKeys("ed25519", seed)
        w == writeToFile(keys, par, f, io)
    IN  [parent |-> w.parent, file |-> w.file,
         last |-> Invocation("create_master_keys", None, None, w.err,
                             Some(keys), None, FALSE, w.err = "",
                             <<"create", "persist">>, io, f, "ed25519")]

\* void createKeyFile (keyFile)
createKeyFile(par, f, seed, io) ==
    IF f.state # "absent"
    THEN [parent |-> par, file |-> f,
          last |-> Invocation("create_master_keys", None, None,
                              "Refusing to overwrite existing key file",
                              None, None, FALSE, FALSE, <<>>, NoIO, f, "")]
    ELSE
    LET keys == NewValidatorKeys("ed25519", seed)
        w == writeToFile(keys, par, f, io)
    IN  [parent |-> w.parent, file |-> w.file,
         last |-> Invocation("create_master_keys", None, None, w.err,
                             Some(keys), None, FALSE, w.err = "",
                             <<"create", "persist">>, io, f, "ed25519")]

\* the manifests on display after an invocation
Displayed(inv) ==
    IF inv.eph = None \/ ~ \E i \in 1..Len(inv.events) : inv.events[i] = "display"
    THEN <<>>
    ELSE << [master |-> decodeManifest(inv.eph[1].manifest).PublicKey,
             sequence |-> decodeManifest(inv.eph[1].manifest).Sequence] >>

Step(r) ==
    /\ parent' = r.parent
    /\ file' = r.file
    /\ last' = r.last
    /\ produced' = produced \o Displayed(r.last)
    /\ ncmds' = ncmds + 1

Run(r) == ncmds < MaxCmds /\ Step(r)

\* runCommand: args[0] == "create_master_keys"
CreateMasterKeys ==
    \E seed \in Seeds, io \in IOs : Run(createKeyFile(parent, file, seed, io))

\* runCommand: args[0] == "create_signing_keys"
CreateSigningKeys ==
    \E seed \in Seeds, io \in IOs :
        Run(signManifest("create_signing_keys", parent, file, None, seed, io))

\* revoke_master_keys requesting the signed maximum
RevokeMasterKeys_signedMax ==
    \E seed \in Seeds, io \in IOs :
        Run(signManifest("revoke_master_keys", parent, file,
                         Some(INT32_MAX), seed, io))

\* runCommand: args[0] == "revoke_master_keys"
RevokeMasterKeys ==
    \E seed \in Seeds, io \in IOs :
        Run(signManifest("revoke_master_keys", parent, file,
                         Some(UINT32_MAX), seed, io))

\* ------------------------------------------------------- initial states
\* the "sequence" texts a key file may hold
SequenceToks ==
    {NumberTok(n) : n \in -1..(UINT32_MAX + 1)}
        \cup {StringTok, RealTok, BoolTok(TRUE), BoolTok(FALSE)}

SecretTexts ==
    {toBase58("TOKEN_NODE_PRIVATE", generateSecretKey(kt, 1)) : kt \in KeyTypes}
        \cup {toBase58("TOKEN_NODE_PUBLIC", generateSecretKey("ed25519", 1)),
              toBase58("none", BadSecret)}

\* validation_public_key texts: the key derived from the record's secret, a
\* well-formed key of another secret, and text that is no key
PublicTexts(kt, ms) ==
    {toBase58("TOKEN_NODE_PUBLIC", derivePublicKey(kt, ms.payload)),
     toBase58("TOKEN_NODE_PUBLIC",
              derivePublicKey("ed25519", generateSecretKey("ed25519", MaxSeed))),
     toBase58("none", BadPublic)}

KeyFiles ==
    {NoFile, Garbage} \cup
    UNION {{JsonFile(m, kt, ms, vpk, seq) :
                m \in SUBSET FieldNames,
                vpk \in PublicTexts(keyTypeFromString(kt), ms),
                seq \in SequenceToks} :
           kt \in KeyTypes \cup {"dummy keytype"}, ms \in SecretTexts}

Init ==
    /\ parent \in {"none", "dir", "missing", "notdir"}
    /\ file \in KeyFiles
    /\ parent \in {"missing", "notdir"} => file = NoFile
    /\ last = NoInvocation
    /\ produced = <<>>
    /\ ncmds = 0

Next == CreateMasterKeys \/ CreateSigningKeys \/ RevokeMasterKeys

Spec == Init /\ [][Next]_vars


\* ------------------------------------------------- the functions, called
\* one call on each initial key file
Call(r) == ncmds = 0 /\ Step(r)

\* signManifest called with any sequence argument, absent or 0..UINT32_MAX
SignManifestAny ==
    \E sequence \in {None} \cup {Some(n) : n \in 0..UINT32_MAX},
       seed \in Seeds, io \in IOs :
        Call(signManifest("signManifest", parent, file, sequence, seed, io))

\* testMakeValidatorKeys / testWriteToFile: a new identity of either key type
\* is written to the key file and read back, at sequence n; with earlier set
\* it was first written at sequence 0 and its sequence advanced afterwards
SaveLoad ==
    \E kt \in KeyTypes, seed \in Seeds, n \in 0..UINT32_MAX,
       earlier \in BOOLEAN, io \in IOs :
        LET keys0 == NewValidatorKeys(kt, seed)
            w0 == IF earlier THEN writeToFile(keys0, parent, file, NoIO)
                  ELSE [err |-> "", parent |-> parent, file |-> file]
            keys == [keys0 EXCEPT !.sequence = n]
            w == writeToFile(keys, w0.parent, w0.file, io)
            ld == make_ValidatorKeys(w.file)
        IN  /\ earlier => n > 0
            /\ Call([parent |-> w.parent, file |-> w.file,
                     last |-> Invocation(
                         IF earlier THEN "save_advance_save_load"
                                    ELSE "save_load",
                         None,
                         IF ld.err = "" THEN Some(ld.keys) ELSE None,
                         IF w.err # "" THEN w.err ELSE ld.err,
                         Some(keys), None, FALSE, FALSE,
                         <<"persist", "load">>, io, file, kt)])

\* testMakeValidatorKeys: ValidatorKeys const keys (keyType), nothing written
Construct ==
    \E kt \in KeyTypes, seed \in Seeds :
        Call([parent |-> parent, file |-> file,
              last |-> Invocation("ValidatorKeys", None, None, "",
                                  Some(NewValidatorKeys(kt, seed)), None,
                                  FALSE, FALSE, <<"create">>, NoIO, file, kt)])

\* testCreateEphemeralKeys: a new identity of either key type signs a manifest
\* for an ephemeral key of either key type
CreateEphemeralKeysTest ==
    \E kt \in KeyTypes, ephKeyType \in KeyTypes, seed \in Seeds, ephSeed \in Seeds :
        LET keys == NewValidatorKeys(kt, seed)
            ephKeys == createEphemeralKeys(keys, ephKeyType, ephSeed)
        IN  Call([parent |-> parent, file |-> file,
                  last |-> Invocation("createEphemeralKeys", None, Some(keys),
                                      "", Some(keys), Some(ephKeys), FALSE,
                                      FALSE, <<"create", "sign">>, NoIO, file,
                                      ephKeyType)])

\* the key files the functions are called on: none, an unreadable one, and
\* the records that load
ApiKeyFiles ==
    {NoFile, Garbage} \cup
    UNION {{JsonFile(m, kt, ms, vpk, NumberTok(n)) :
                m \in {FieldNames, FieldNames \ {"validation_public_key"}},
                vpk \in PublicTexts(kt, ms),
                n \in 0..UINT32_MAX} :
           kt \in KeyTypes,
           ms \in {toBase58("TOKEN_NODE_PRIVATE", generateSecretKey(k, 1)) :
                      k \in KeyTypes}}

InitApi ==
    /\ parent \in {"none", "dir", "missing", "notdir"}
    /\ file \in ApiKeyFiles
    /\ parent \in {"missing", "notdir"} => file = NoFile
    /\ last = NoInvocation
    /\ produced = <<>>
    /\ ncmds = 0

NextApi == SignManifestAny \/ SaveLoad \/ Construct \/ CreateEphemeralKeysTest

SpecApi == InitApi /\ [][NextApi]_vars


\* ================================================================ claims
SigningCommands == {"create_signing_keys", "revoke_master_keys"}
WriteErrors == {"Cannot create directory", "Cannot open key file"}

\* the invocation reached writeToFile and the whole record went to the file
Saved(inv) ==
    /\ \E i \in 1..Len(inv.events) : inv.events[i] = "persist"
    /\ inv.err \notin WriteErrors
    /\ inv.io # "write fails"

\* the key file holds a record whose sequence reads UINT32_MAX
PersistedRevoked(f) ==
    /\ f.state = "json"
    /\ "sequence" \in f.members
    /\ f.sequence = NumberTok(UINT32_MAX)

\* C1: every manifest produced carries a sequence strictly greater than the
\* sequence of every manifest produced earlier for the same master key, also
\* when an invocation's final write of the key file fails.
C1_SequencesStrictlyIncrease ==
    \A i, j \in 1..Len(produced) :
        (i < j /\ produced[i].master = produced[j].master)
            => produced[i].sequence < produced[j].sequence

\* C2: with a requested sequence s on an identity whose sequence is c, the
\* advance succeeds with new sequence s exactly when s > c, for every s up to
\* UINT32_MAX, and fails with the not-increasing error for every s <= c.
C2_RequestedAdvance ==
    (last.cmd = "signManifest" /\ last.requested # None /\ last.loaded # None)
    => LET c == last.loaded[1].sequence
           s == last.requested[1]
       IN  /\ s > c => /\ last.keys[1].sequence = s
                       /\ last.err \notin {SeqNotIncreasing, SeqExhausted}
                       /\ last.eph # None
                       /\ decodeManifest(last.eph[1].manifest).Sequence = s
           /\ s <= c => /\ last.err = SeqNotIncreasing
                        /\ last.keys[1].sequence = c
                        /\ last.eph = None

\* a requested sequence that jumps ahead, below the maximum, was accepted
C2_Witness ==
    /\ last.cmd = "signManifest" /\ last.requested # None /\ last.loaded # None
    /\ last.requested[1] > last.loaded[1].sequence + 1
    /\ last.requested[1] < UINT32_MAX
    /\ last.keys[1].sequence = last.requested[1]

\* C3: with no requested sequence on an identity whose sequence is c, the
\* advance yields exactly c + 1 when c < UINT32_MAX and fails with the
\* exhausted error when c = UINT32_MAX.
C3_AutomaticAdvance ==
    (last.cmd = "create_signing_keys" /\ last.loaded # None)
    => LET c == last.loaded[1].sequence
       IN  /\ c < UINT32_MAX => /\ last.keys[1].sequence = c + 1
                                /\ last.err \notin {SeqNotIncreasing, SeqExhausted}
                                /\ last.eph # None
           /\ c = UINT32_MAX => /\ last.err = SeqExhausted
                                /\ last.keys[1].sequence = c
                                /\ last.eph = None

\* the automatic increment took the sequence from UINT32_MAX - 1 to UINT32_MAX
C3_Witness ==
    /\ last.cmd = "create_signing_keys" /\ last.loaded # None
    /\ last.loaded[1].sequence = UINT32_MAX - 1
    /\ last.keys[1].sequence = UINT32_MAX

C5_RevokedFailsExhausted ==
    (/\ last.cmd \in SigningCommands /\ last.loaded # None
     /\ last.loaded[1].sequence = UINT32_MAX)
    => last.err = SeqExhausted

\* C5, amended: on an identity whose sequence is UINT32_MAX every advance and
\* every revoke fails and signs nothing; the automatic advance fails with the
\* exhausted error, the revoke with the not-increasing error.
C5_RevokedFails ==
    (/\ last.cmd \in SigningCommands /\ last.loaded # None
     /\ last.loaded[1].sequence = UINT32_MAX)
    => /\ last.eph = None
       /\ last.keys[1].sequence = UINT32_MAX
       /\ file = last.before
       /\ last.cmd = "create_signing_keys" => last.err = SeqExhausted
       /\ last.cmd = "revoke_master_keys" => last.err = SeqNotIncreasing

\* a key revoked by an earlier invocation was revoked again
C5_Witness ==
    /\ last.cmd = "revoke_master_keys" /\ last.loaded # None
    /\ last.loaded[1].sequence = UINT32_MAX
    /\ Len(produced) > 0
    /\ produced[Len(produced)].sequence = UINT32_MAX

\* C6: when the persisted sequence is UINT32_MAX, no command changes the key
\* file or produces a manifest, so the persisted sequence stays UINT32_MAX.
C6_RevokedIsTerminal ==
    [][PersistedRevoked(file)
           => /\ file' = file
              /\ parent' = parent
              /\ produced' = produced
              /\ last'.eph = None]_vars

\* a command ran on a key file that an earlier invocation had revoked
C6_Witness ==
    /\ PersistedRevoked(file)
    /\ PersistedRevoked(last.before)
    /\ last.cmd \in SigningCommands \cup {"create_master_keys"}
    /\ Len(produced) > 0
    /\ produced[Len(produced)].sequence = UINT32_MAX

\* C7: create_master_keys on an existing key file fails with an error and
\* leaves the file unchanged; a master secret is generated only when no key
\* file exists at the path.
C7_RefusesOverwrite ==
    last.cmd = "create_master_keys"
    => /\ last.before.state # "absent"
           => /\ last.err = "Refusing to overwrite existing key file"
              /\ file = last.before
              /\ last.keys = None
       /\ last.keys # None => last.before.state = "absent"

\* create_master_keys was refused on a key file holding a record
C7_Witness ==
    /\ last.cmd = "create_master_keys"
    /\ last.before.state = "json"
    /\ last.err = "Refusing to overwrite existing key file"


\* the three members of a record other than its sequence, with their presence
IdentityMembers(f) ==
    [members |-> f.members \ {"sequence"}, key_type |-> f.key_type,
     master_secret |-> f.master_secret,
     validation_public_key |-> f.validation_public_key]

\* C8, as stated: across create_signing_keys and revoke_master_keys the
\* persisted master_secret, key_type and validation_public_key never change.
C8_IdentityMembersNeverChange ==
    (last.cmd \in SigningCommands /\ last.before.state = "json"
        /\ file.state = "json")
    => IdentityMembers(file) = IdentityMembers(last.before)

\* C8, amended: after create_signing_keys or revoke_master_keys the key file is
\* unchanged, or holds no record because the write was cut short after the
\* truncating open, or holds a record with the master_secret and key_type of
\* the record that was loaded and with validation_public_key set to the key
\* derived from master_secret, which leaves validation_public_key unchanged
\* exactly when the loaded record already carried the derived key.
C8_IdentityMembersKept ==
    last.cmd \in SigningCommands
    => \/ file = last.before
       \/ last.io = "write fails" /\ file = Garbage
       \/ /\ last.before.state = "json" /\ file.state = "json"
          /\ last.loaded # None
          /\ file.members = FieldNames
          /\ file.master_secret = last.before.master_secret
          /\ file.key_type = last.before.key_type
          /\ file.validation_public_key =
                 toBase58("TOKEN_NODE_PUBLIC",
                          derivePublicKey(last.loaded[1].keyType,
                                          last.loaded[1].masterSecret))
          /\ readValue(file.sequence).n > last.loaded[1].sequence

\* a signing command replaced a validation_public_key that did not match
C8_Witness ==
    /\ last.cmd \in SigningCommands /\ Saved(last)
    /\ last.before.state = "json" /\ file.state = "json"
    /\ "validation_public_key" \in last.before.members
    /\ last.before.validation_public_key.token = "TOKEN_NODE_PUBLIC"
    /\ file.validation_public_key # last.before.validation_public_key
    /\ file.master_secret = last.before.master_secret

\* C9: for an identity of either key type and any sequence in 0..UINT32_MAX,
\* also one advanced after an earlier save, loading the record that save wrote
\* yields an identity equal in keyType, sequence and validationPublicKey.
C9_RoundTrip ==
    (last.cmd \in {"save_load", "save_advance_save_load"} /\ Saved(last))
    => /\ last.loaded # None
       /\ last.loaded[1].keyType = last.keys[1].keyType
       /\ last.loaded[1].sequence = last.keys[1].sequence
       /\ last.loaded[1].validationPublicKey = last.keys[1].validationPublicKey

\* a secp256k1 identity advanced to UINT32_MAX after an earlier save came back
C9_Witness ==
    /\ last.cmd = "save_advance_save_load" /\ Saved(last)
    /\ last.keys[1].keyType = "secp256k1"
    /\ last.keys[1].sequence = UINT32_MAX
    /\ last.loaded # None

\* the records that differ from f at most in validation_public_key
PublicKeyVariants(f) ==
    IF f.state # "json" THEN {f}
    ELSE {[f EXCEPT !.members = @ \ {"validation_public_key"},
                    !.validation_public_key = toBase58("none", BadPublic)]}
         \cup {[f EXCEPT !.members = @ \cup {"validation_public_key"},
                         !.validation_public_key = t] :
                  t \in PublicTexts(keyTypeFromString(f.key_type),
                                    f.master_secret)}

\* C10: every identity that load returns has validationPublicKey equal to
\* derivePublicKey(keyType, masterSecret), and the record's
\* validation_public_key, absent, matching or not, changes neither the loaded
\* identity nor the outcome of load.
C10_PublicKeyDerived ==
    last.cmd \in SigningCommands
    => /\ last.loaded # None
           => last.loaded[1].validationPublicKey =
                  derivePublicKey(last.loaded[1].keyType,
                                  last.loaded[1].masterSecret)
       /\ \A g \in PublicKeyVariants(last.before) :
              LET r == make_ValidatorKeys(g)
              IN  /\ (r.err = "") = (last.loaded # None)
                  /\ r.err = "" => r.keys = last.loaded[1]
                  /\ r.err # "" => r.err = last.err

\* a record whose validation_public_key is the key of another secret loaded
C10_Witness ==
    /\ last.cmd \in SigningCommands /\ last.loaded # None
    /\ "validation_public_key" \in last.before.members
    /\ last.before.validation_public_key.token = "TOKEN_NODE_PUBLIC"
    /\ last.before.validation_public_key.payload
           # last.loaded[1].validationPublicKey

\* C11: a newly created identity of key type k has keyType k, sequence 0 and
\* masterPublicKey derivePublicKey(k, masterSecret), for both key types, and
\* creating it writes nothing to the key file.
C11_NewIdentity ==
    last.cmd = "ValidatorKeys"
    => /\ last.keys # None
       /\ last.keys[1].keyType = last.ktype
       /\ last.keys[1].sequence = 0
       /\ last.keys[1].validationPublicKey =
              derivePublicKey(last.ktype, last.keys[1].masterSecret)
       /\ file = last.before
       /\ ~ last.stored

\* a secp256k1 identity was created next to an existing key file
C11_Witness ==
    /\ last.cmd = "ValidatorKeys" /\ last.ktype = "secp256k1"
    /\ last.keys # None /\ last.keys[1].keyType = "secp256k1"
    /\ file.state = "json"

\* C14: for every combination of master and ephemeral key type, the manifest
\* decodes to a record whose ephemeral signature verifies against the
\* ephemeral public key it embeds and whose master signature verifies against
\* the identity's master public key.
C14_ManifestSignaturesVerify ==
    last.eph # None
    => LET st == decodeManifest(last.eph[1].manifest)
       IN  /\ verify(st, st.SigningPubKey, st.Signature)
           /\ verify(st, last.keys[1].validationPublicKey, st.MasterSignature)

\* a secp256k1 identity signed a manifest for an ed25519 ephemeral key
C14_Witness ==
    /\ last.cmd = "createEphemeralKeys" /\ last.eph # None
    /\ last.keys[1].keyType = "secp256k1" /\ last.ktype = "ed25519"
    /\ decodeManifest(last.eph[1].manifest).MasterSignature # NoSignature

\* C15: the ephemeral public key returned is derivePublicKey(ephKeyType,
\* generateSecretKey(ephKeyType, returned seed)) and is the signing public key
\* embedded in the manifest.
C15_EphemeralKeyFromSeed ==
    last.eph # None
    => /\ last.eph[1].validationPublicKey =
              derivePublicKey(last.ktype,
                              generateSecretKey(last.ktype, last.eph[1].seed))
       /\ decodeManifest(last.eph[1].manifest).SigningPubKey =
              last.eph[1].validationPublicKey

\* an ed25519 ephemeral key was generated from the largest seed
C15_Witness ==
    /\ last.cmd = "createEphemeralKeys" /\ last.eph # None
    /\ last.ktype = "ed25519" /\ last.eph[1].seed = MaxSeed
    /\ last.eph[1].validationPublicKey.type = "ed25519"

\* C16: the manifest's sequence is the identity's sequence at the time of the
\* call and its master public key the identity's, and createEphemeralKeys
\* leaves the identity as it was: the identity saved after signing is the one
\* that signed.
C16_ManifestCarriesIdentity ==
    last.eph # None
    => LET st == decodeManifest(last.eph[1].manifest)
       IN  /\ st.Sequence = last.keys[1].sequence
           /\ st.PublicKey = last.keys[1].validationPublicKey
           /\ Saved(last) => file = toRecord(last.keys[1])

\* a manifest was signed by an identity whose sequence had advanced past 1
C16_Witness ==
    /\ last.cmd = "create_signing_keys" /\ last.eph # None /\ Saved(last)
    /\ last.keys[1].sequence > 1 /\ last.keys[1].sequence < UINT32_MAX
    /\ decodeManifest(last.eph[1].manifest).Sequence = last.keys[1].sequence

\* the checks of load on a parsed record, in the order the errors are listed,
\* each with the defect it looks for and the error it reports
LoadChecks(f) ==
    << [fails |-> "key_type" \notin f.members,
        err |-> "missing key_type field"],
       [fails |-> "master_secret" \notin f.members,
        err |-> "missing master_secret field"],
       [fails |-> "sequence" \notin f.members,
        err |-> "missing sequence field"],
       [fails |-> keyTypeFromString(f.key_type) = "invalid",
        err |-> "invalid key type"],
       [fails |-> parseBase58("TOKEN_NODE_PRIVATE", f.master_secret) = None,
        err |-> "invalid master secret"],
       [fails |-> ~ isIntegral(readValue(f.sequence)),
        err |-> "invalid sequence"] >>

\* C12: when a record has several defects, load reports the first failing
\* check in the order missing key_type, missing master_secret, missing
\* sequence, invalid key type, invalid master secret, invalid sequence.
C12_FirstFailingCheck ==
    (last.cmd \in SigningCommands /\ last.before.state = "json")
    => \A i \in 1..Len(LoadChecks(last.before)) :
           (/\ LoadChecks(last.before)[i].fails
            /\ \A j \in 1..(i - 1) : ~ LoadChecks(last.before)[j].fails)
           => last.err = LoadChecks(last.before)[i].err

\* a record without a sequence whose key type and master secret are both
\* invalid was reported as missing its sequence
C12_Witness ==
    /\ last.cmd \in SigningCommands /\ last.before.state = "json"
    /\ {"key_type", "master_secret"} \subseteq last.before.members
    /\ "sequence" \notin last.before.members
    /\ keyTypeFromString(last.before.key_type) = "invalid"
    /\ parseBase58("TOKEN_NODE_PRIVATE", last.before.master_secret) = None
    /\ last.err = "missing sequence field"

\* C13: for a record with a valid key_type and master_secret, load fails with
\* the invalid sequence error for every sequence that is not an unsigned
\* 32-bit integer (a string, a negative integer, a boolean, a value above
\* UINT32_MAX) and succeeds for every value in 0..UINT32_MAX, giving exactly
\* that value.
C13_SequenceValidated ==
    (/\ last.cmd \in SigningCommands /\ last.before.state = "json"
     /\ {"key_type", "master_secret", "sequence"} \subseteq last.before.members
     /\ keyTypeFromString(last.before.key_type) # "invalid"
     /\ parseBase58("TOKEN_NODE_PRIVATE", last.before.master_secret) # None)
    => IF /\ last.before.sequence.kind = "number"
          /\ last.before.sequence.n \in 0..UINT32_MAX
       THEN /\ last.loaded # None
            /\ last.loaded[1].sequence = last.before.sequence.n
       ELSE last.loaded = None /\ last.err = "invalid sequence"

\* the invocation reached event e
Reached(inv, e) == \E i \in 1..Len(inv.events) : inv.events[i] = e

\* C17: a failed write cannot leave a truncated, unparsable key file: after an
\* invocation that reached the write, the key file holds either the complete
\* record it held before or the complete new record.
C17_WriteAllOrNothing ==
    Reached(last, "persist")
    => \/ file = last.before
       \/ last.keys # None /\ file = toRecord(last.keys[1])

\* C18: when a signing command fails before signing (the key file is missing,
\* unparsable or invalid, or the sequence is rejected), no manifest and no
\* ephemeral seed are produced, no master identity is created, and the key
\* file and its directory stay as they were.
C18_FailedSigningChangesNothing ==
    [][(last'.cmd \in SigningCommands /\ last'.err \notin WriteErrors \cup {""})
       => /\ last'.eph = None
          /\ produced' = produced
          /\ last'.keys = last'.loaded
          /\ ~ last'.stored
          /\ file' = file /\ parent' = parent]_vars

\* create_signing_keys was refused on a revoked record after a manifest had
\* been produced, and the record stayed as it was
C18_Witness ==
    /\ last.cmd = "create_signing_keys" /\ last.err = SeqExhausted
    /\ last.eph = None /\ Len(produced) > 0
    /\ file = last.before /\ PersistedRevoked(file)

\* C19: a signing invocation proceeds load, sequence, sign, persist, display:
\* the manifest is shown only after the advanced identity has been persisted.
C19_DisplayAfterPersist ==
    last.cmd \in SigningCommands
    => /\ \A i \in 1..Len(last.events) :
              last.events[i] = "display"
              => \E j \in 1..(i - 1) : last.events[j] = "persist"
       /\ Displayed(last) # <<>> => Saved(last)

\* C20: an invocation performs at most one load, one sequence transition, one
\* signing and one write, on every path, the failing ones included.
C20_AtMostOnce ==
    \A e \in {"load", "sequence", "sign", "persist"} :
        Cardinality({i \in 1..Len(last.events) : last.events[i] = e}) <= 1

\* a signing invocation did all four and its write failed
C20_Witness ==
    /\ last.cmd \in SigningCommands /\ last.err \in WriteErrors
    /\ \A e \in {"load", "sequence", "sign", "persist"} : Reached(last, e)

\* the record {sequence, masterPublicKey, ephemeralPublicKey} of a manifest
PreSignatureRecord(st) ==
    [Sequence |-> st.Sequence, PublicKey |-> st.PublicKey,
     SigningPubKey |-> st.SigningPubKey]

\* the signatures an attacker could put in place of the ephemeral signature
ForgedSignatures(st) == {NoSignature, st.MasterSignature} \ {st.Signature}

\* C21: the ephemeral signature is computed first over the record {sequence,
\* masterPublicKey, ephemeralPublicKey}, and the master signature afterwards
\* over the record that already contains the ephemeral signature, so that the
\* master signature covers the ephemeral signature: it no longer verifies
\* once the ephemeral signature is replaced.
C21_MasterCoversEphemeral ==
    last.eph # None
    => LET st == decodeManifest(last.eph[1].manifest)
       IN  /\ st.Signature.data = PreSignatureRecord(st)
           /\ \A forged \in ForgedSignatures(st) :
                  ~ verify([st EXCEPT !.Signature = forged],
                           last.keys[1].validationPublicKey,
                           st.MasterSignature)

\* C21 as amended: the ephemeral signature is computed first and the master
\* signature afterwards, both over the record {sequence, masterPublicKey,
\* ephemeralPublicKey} without any signature field: the master signature does
\* not cover the ephemeral signature and still verifies when it is replaced.
C21_BothSignPreSignatureRecord ==
    last.eph # None
    => LET st == decodeManifest(last.eph[1].manifest)
       IN  /\ st.Signature.data = PreSignatureRecord(st)
           /\ st.Signature.signer = st.SigningPubKey
           /\ st.MasterSignature.data = PreSignatureRecord(st)
           /\ st.MasterSignature.signer = last.keys[1].validationPublicKey
           /\ \A forged \in ForgedSignatures(st) :
                  verify([st EXCEPT !.Signature = forged],
                         last.keys[1].validationPublicKey,
                         st.MasterSignature)

\* an ed25519 identity signed a manifest whose two signatures differ
C21_Witness ==
    /\ last.cmd = "createEphemeralKeys" /\ last.eph # None
    /\ last.keys[1].keyType = "ed25519"
    /\ LET st == decodeManifest(last.eph[1].manifest)
       IN  /\ st.Signature # NoSignature
           /\ st.MasterSignature # st.Signature
           /\ Cardinality(ForgedSignatures(st)) = 2

\* C22: after every signing invocation that completes without error, the
\* sequence stored in the key file equals the sequence embedded in the
\* manifest the invocation displayed and is strictly greater than the sequence
\* stored before the invocation.
C22_StoredSequenceIsDisplayed ==
    (last.cmd \in SigningCommands /\ last.err = "")
    => /\ Displayed(last) # <<>>
       /\ file.state = "json" /\ "sequence" \in file.members
       /\ file.sequence =
              NumberTok(decodeManifest(last.eph[1].manifest).Sequence)
       /\ last.before.sequence.kind = "number"
              => file.sequence.n > last.before.sequence.n

\* C23: the identity's sequence stays within 0..UINT32_MAX in every reachable
\* state although the in-memory field is wider: the automatic increment is
\* never applied at UINT32_MAX, never wraps to 0 and never yields a value that
\* the 32-bit write to the key file or to the manifest would truncate.
C23_SequenceInRange ==
    /\ last.loaded # None => last.loaded[1].sequence \in 0..UINT32_MAX
    /\ last.keys # None => last.keys[1].sequence \in 0..UINT32_MAX
    /\ (last.cmd = "create_signing_keys" /\ last.loaded # None)
       => IF last.loaded[1].sequence = UINT32_MAX
          THEN last.err = SeqExhausted /\ last.keys = last.loaded
                   /\ last.eph = None
          ELSE last.keys[1].sequence = last.loaded[1].sequence + 1
    /\ last.eph # None
       => decodeManifest(last.eph[1].manifest).Sequence = last.keys[1].sequence
    /\ (last.keys # None /\ Saved(last))
       => file.sequence = NumberTok(last.keys[1].sequence)

\* the automatic increment was refused at UINT32_MAX after it had taken the
\* sequence from UINT32_MAX - 1 to UINT32_MAX
C23_Witness ==
    /\ last.cmd = "create_signing_keys" /\ last.loaded # None
    /\ last.loaded[1].sequence = UINT32_MAX /\ last.err = SeqExhausted
    /\ Len(produced) > 0
    /\ produced[Len(produced)].sequence = UINT32_MAX

\* C24: the revocation warning is emitted in exactly those signing
\* invocations whose resulting sequence is UINT32_MAX: for revoke_master_keys
\* from any sequence below UINT32_MAX and for create_signing_keys from
\* UINT32_MAX - 1; it is never emitted when the resulting sequence is lower.
C24_WarningIffRevoking ==
    last.cmd \in SigningCommands
    => /\ last.warning
          <=> (Reached(last, "sign") /\ last.keys[1].sequence = UINT32_MAX)
       /\ (last.cmd = "revoke_master_keys" /\ last.loaded # None
              /\ last.loaded[1].sequence < UINT32_MAX) => last.warning
       /\ (last.cmd = "create_signing_keys" /\ last.loaded # None
              /\ last.loaded[1].sequence = UINT32_MAX - 1) => last.warning
       /\ (last.eph # None
              /\ decodeManifest(last.eph[1].manifest).Sequence < UINT32_MAX)
          => ~ last.warning

\* create_signing_keys warned when its increment took the sequence from
\* UINT32_MAX - 1 to UINT32_MAX
C24_Witness ==
    /\ last.cmd = "create_signing_keys" /\ last.warning
    /\ last.loaded # None /\ last.loaded[1].sequence = UINT32_MAX - 1
    /\ last.keys[1].sequence = UINT32_MAX

\* C25: writeToFile creates the missing parent directories before writing;
\* when the parent path exists and is not a directory it fails with 'Cannot
\* create directory', and when the target cannot be opened for writing it
\* fails with 'Cannot open key file', in both cases leaving an existing key
\* file as it is.
C25_WriteToFileErrors ==
    [][Reached(last', "persist")
       => /\ (parent = "missing" /\ last'.io # "create_directories fails")
              => parent' = "dir"
          /\ parent = "notdir"
              => /\ last'.err = "Cannot create directory"
                 /\ file' = file /\ parent' = parent
          /\ (parent \in {"none", "dir"} /\ last'.io = "open fails")
              => /\ last'.err = "Cannot open key file"
                 /\ file' = file /\ parent' = parent
          /\ (parent = "missing" /\ last'.io = "ok")
              => file' = toRecord(last'.keys[1]) /\ last'.err = ""
          /\ last'.err \in WriteErrors => file' = file]_vars

\* a signing invocation failed to open the existing key file for writing and
\* the key file is as it was
C25_Witness ==
    /\ Reached(last, "persist") /\ last.err = "Cannot open key file"
    /\ file.state = "json" /\ file = last.before
    /\ last.cmd \in SigningCommands

====
